---- MODULE Spec2Model ----
(***************************************************************************)
(* ASCII-OS (src/src/main.c): a single-threaded UEFI text-mode shell with  *)
(* a main menu and four sub-applications (notepad, calculator, editor,     *)
(* donut animation).                                                       *)
(*                                                                         *)
(* The arrays of the program are scaled down: MAX_LINES, MAX_LINE_LENGTH,  *)
(* SCREEN_WIDTH, SCREEN_HEIGHT, FILE_CHARS and INPUT_CAP stand for the     *)
(* program's 100, 256, 80, 25, 8192/2 and 127.  Every guard of the code is *)
(* written against the named constant, so "line 99" is MAX_LINES - 1 and   *)
(* "column 255" is MAX_LINE_LENGTH - 1.  The screen geometry of the two    *)
(* text windows is scaled with them: NOTEPAD_X, NOTEPAD_Y, NOTEPAD_ROWS    *)
(* and NOTEPAD_FIELD stand for the notepad's text origin (12, 4), its 16   *)
(* displayed rows and its 54 blanked cells per row; EDITOR_X, EDITOR_Y,    *)
(* EDITOR_ROWS and EDITOR_FIELD for the editor's (10, 3), 18 and 60.  As   *)
(* in the program, a line can be longer than the blanked field and the     *)
(* buffer has more lines than the window shows.                            *)
(***************************************************************************)
EXTENDS Integers, Sequences, FiniteSets, TLC

\* ------------------------------------------------------------------ bounds
MAX_LINES == 2
MAX_LINE_LENGTH == 3
SCREEN_WIDTH == 2
SCREEN_HEIGHT == 4
FILE_CHARS == 5
INPUT_CAP == 2
MaxExprLen == 4
NOTEPAD_X == 1
NOTEPAD_Y == 3
NOTEPAD_ROWS == 1
NOTEPAD_FIELD == 1
EDITOR_X == 1
EDITOR_Y == 3
EDITOR_ROWS == 1
EDITOR_FIELD == 1
PENDING_CAP == 2
MaxFrames == 3

\* --------------------------------------------------------- character codes
NUL == 0
CHAR_BACKSPACE == 8
CHAR_LINEFEED == 10
CHAR_CARRIAGE_RETURN == 13
SCAN_NULL == 0
SCAN_UP == 1
SCAN_DOWN == 2
SCAN_RIGHT == 3
SCAN_LEFT == 4
SCAN_F2 == 12
SCAN_F3 == 13
SCAN_ESC == 23
\* stand-in for a non-zero CHAR16 of uninitialised stack storage
JUNK == 63
\* L' ', the character of the blanking strings
BLANK == 32

Scan(s) == [ScanCode |-> s, UnicodeChar |-> NUL]
Char(u) == [ScanCode |-> SCAN_NULL, UnicodeChar |-> u]
NoKey == Scan(SCAN_NULL)

Min(a, b) == IF a < b THEN a ELSE b

\* ------------------------------------------------------------ text buffers
Lines == 0 .. (MAX_LINES - 1)
Cols == 0 .. (MAX_LINE_LENGTH - 1)

\* CHAR16 buffer[MAX_LINES][MAX_LINE_LENGTH], every cell NUL
ZeroBuffer == [l \in Lines |-> [c \in Cols |-> NUL]]

\* The NUL-terminated string that starts at flat position p of the array.
\* A row with no NUL is read on into the next row, as StrLen and
\* OutputString do; the read stops at the end of the array.
RECURSIVE StrFrom(_, _)
StrFrom(buf, p) ==
    IF p >= MAX_LINES * MAX_LINE_LENGTH THEN <<>>
    ELSE LET ch == buf[p \div MAX_LINE_LENGTH][p % MAX_LINE_LENGTH]
         IN IF ch = NUL THEN <<>> ELSE <<ch>> \o StrFrom(buf, p + 1)

\* the string held by buffer[l]
Str(buf, l) == StrFrom(buf, l * MAX_LINE_LENGTH)

\* StrLen(buffer[l])
StrLen(buf, l) == Len(Str(buf, l))

\* StrCpy(buffer[l], s)
StrCpy(buf, l, s) ==
    [buf EXCEPT ![l] = [c \in Cols |->
        IF c < Len(s) THEN s[c + 1] ELSE IF c = Len(s) THEN NUL ELSE buf[l][c]]]

\* -------------------------------------------------------------- text surface
\* The text rows of the running window, as the console shows them: row i is
\* the screen row that line i of the buffer is drawn on, cell c the c-th
\* cell from the text origin.  A row keeps the cells a line of the buffer
\* can reach; what the console shows elsewhere is not kept.
ScreenCols == 0 .. (MAX_LINE_LENGTH - 2)

\* clear_screen(), seen through a window of that many rows
ClearRows(rows) == [i \in 0 .. (rows - 1) |-> [c \in ScreenCols |-> BLANK]]

\* set_cursor(x, y); OutputString(field blanks); set_cursor(x, y);
\* OutputString(s): the field is blanked, s is written over it from the
\* origin, and a cell beyond both keeps what it showed
DrawRow(row, s, field) ==
    [c \in ScreenCols |->
        IF c < Len(s) THEN s[c + 1] ELSE IF c < field THEN BLANK ELSE row[c]]

\* "display current buffer": for (i = 0; i < rows && i < lines; i++)
Redraw(scr, buf, lines, rows, field) ==
    [i \in DOMAIN scr |->
        IF i < rows /\ i < lines THEN DrawRow(scr[i], Str(buf, i), field) ELSE scr[i]]

\* "show cursor": the position handed to set_cursor before read_key
ShowCursor(x, y, ed) == [x |-> x + ed.col, y |-> y + ed.line]

\* --------------------------------------------------------------- persistence
\* what the firmware can answer to one call of save_to_file / load_from_file:
\* "error" is any failed LocateHandleBuffer, HandleProtocol, OpenVolume, Open,
\* AllocatePool or Read; "nowrite" is a file whose Write calls fail (the code
\* ignores their status); "ok" is a call on which every service succeeds.
SaveOutcomes == {"ok", "nowrite", "error"}
LoadOutcomes == {"ok", "error"}

\* the characters save_to_file writes: each line followed by "\r\n"
RECURSIVE SaveData(_, _, _)
SaveData(buf, i, num_lines) ==
    IF i >= num_lines THEN <<>>
    ELSE Str(buf, i) \o <<CHAR_CARRIAGE_RETURN, CHAR_LINEFEED>>
         \o SaveData(buf, i + 1, num_lines)

\* Open(READ|WRITE|CREATE) opens an existing file without truncating it and
\* the writes start at position 0: what the file held beyond the written
\* data stays in the file.
FileWrite(old, data) == data \o SubSeq(old, Len(data) + 1, Len(old))

\* save_to_file: [status, file]
save_to_file(file, buffer, num_lines, outcome) ==
    IF outcome = "error" THEN [status |-> "EFI_ERROR", file |-> file]
    ELSE IF outcome = "nowrite" THEN [status |-> "EFI_SUCCESS", file |-> file]
    ELSE [status |-> "EFI_SUCCESS",
          file |-> FileWrite(file, SaveData(buffer, 0, num_lines))]

\* LoadParse that counts a line at every terminator, blank lines included
RECURSIVE LoadParseKeepsBlankLines(_, _, _, _, _)
LoadParseKeepsBlankLines(data, i, buffer, line, col) ==
    IF i > Len(data) \/ line >= MAX_LINES
    THEN IF col > 0
         THEN [buffer |-> [buffer EXCEPT ![line][col] = NUL], num_lines |-> line + 1]
         ELSE [buffer |-> buffer, num_lines |-> line]
    ELSE IF data[i] = CHAR_CARRIAGE_RETURN \/ data[i] = CHAR_LINEFEED
    THEN LoadParseKeepsBlankLines(data, i + 1, [buffer EXCEPT ![line][col] = NUL],
                                  line + 1, 0)
    ELSE IF col < MAX_LINE_LENGTH - 1
    THEN LoadParseKeepsBlankLines(data, i + 1, [buffer EXCEPT ![line][col] = data[i]],
                                  line, col + 1)
    ELSE LoadParseKeepsBlankLines(data, i + 1, buffer, line, col)

\* the parse loop of load_from_file over the characters read
RECURSIVE LoadParse(_, _, _, _, _)
LoadParse(data, i, buffer, line, col) ==
    IF i > Len(data) \/ line >= MAX_LINES
    THEN IF col > 0
         THEN [buffer |-> [buffer EXCEPT ![line][col] = NUL], num_lines |-> line + 1]
         ELSE [buffer |-> buffer, num_lines |-> line]
    ELSE IF data[i] = CHAR_CARRIAGE_RETURN \/ data[i] = CHAR_LINEFEED
    THEN LoadParse(data, i + 1, [buffer EXCEPT ![line][col] = NUL],
                   IF col > 0 THEN line + 1 ELSE line, 0)
    ELSE IF col < MAX_LINE_LENGTH - 1
    THEN LoadParse(data, i + 1, [buffer EXCEPT ![line][col] = data[i]], line, col + 1)
    ELSE LoadParse(data, i + 1, buffer, line, col)

\* load_from_file: [status, buffer, num_lines]; *num_lines = 0 comes first,
\* and Read returns at most file_size / sizeof(CHAR16) = FILE_CHARS characters
load_from_file(file, buffer, outcome) ==
    IF outcome = "error"
    THEN [status |-> "EFI_ERROR", buffer |-> buffer, num_lines |-> 0]
    ELSE LET r == LoadParse(SubSeq(file, 1, Min(Len(file), FILE_CHARS)), 1, buffer, 0, 0)
         IN [status |-> "EFI_SUCCESS", buffer |-> r.buffer, num_lines |-> r.num_lines]

\* ----------------------------------------------------------------- evaluator
IsDigit(ch) == ch >= 48 /\ ch <= 57
IsOperator(ch) == ch \in {43, 45, 42, 47}

\* C's integer division (the quotient is truncated toward zero); d > 0
CDiv(n, d) == IF n >= 0 THEN n \div d ELSE -((-n) \div d)

\* ApplyOp with a division by zero that clears the result instead of skipping
ApplyOpDivZeroClears(op, result, current_num) ==
    IF op = 43 THEN result + current_num
    ELSE IF op = 45 THEN result - current_num
    ELSE IF op = 42 THEN result * current_num
    ELSE IF op = 47 THEN (IF current_num # 0 THEN CDiv(result, current_num) ELSE 0)
    ELSE result

\* "apply previous operation": result op= current_num
ApplyOp(op, result, current_num) ==
    IF op = 43 THEN result + current_num
    ELSE IF op = 45 THEN result - current_num
    ELSE IF op = 42 THEN result * current_num
    ELSE IF op = 47 /\ current_num # 0 THEN CDiv(result, current_num)
    ELSE result

\* EvalStep that does not clear the operand at an operator symbol
EvalStepKeepsOperand(e) ==
    LET ch == e.expr[e.i] IN
    IF IsDigit(ch)
    THEN [e EXCEPT !.current_num = e.current_num * 10 + (ch - 48), !.i = e.i + 1]
    ELSE IF IsOperator(ch)
    THEN [e EXCEPT !.result = ApplyOp(e.op, e.result, e.current_num),
                   !.op = ch, !.i = e.i + 1]
    ELSE [e EXCEPT !.i = e.i + 1]

\* one iteration of the while loop over expr[i] (i counts from 1 here)
EvalStep(e) ==
    LET ch == e.expr[e.i] IN
    IF IsDigit(ch)
    THEN [e EXCEPT !.current_num = e.current_num * 10 + (ch - 48), !.i = e.i + 1]
    ELSE IF IsOperator(ch)
    THEN [e EXCEPT !.result = ApplyOp(e.op, e.result, e.current_num),
                   !.op = ch, !.current_num = 0, !.i = e.i + 1]
    ELSE [e EXCEPT !.i = e.i + 1]

\* "apply final operation" and return
EvalFinal(e) == [e EXCEPT !.result = ApplyOp(e.op, e.result, e.current_num), !.pc = "returned"]

\* the locals of evaluate_expression on entry
EvalEntry(expr) ==
    [expr |-> expr, i |-> 1, result |-> 0, current_num |-> 0, op |-> 43, pc |-> "loop"]

RECURSIVE EvalRun(_)
EvalRun(e) == IF e.i > Len(e.expr) THEN EvalFinal(e) ELSE EvalRun(EvalStep(e))

evaluate_expression(expr) == EvalRun(EvalEntry(expr)).result

\* ------------------------------------------------- line buffer key handling
\* The notepad (lines 351-368) and the editor (lines 488-505) run the same
\* three branches on their own buffer; ed is [buffer, lines, line, col].
\* KeyBackspace that joins with the previous line in column 0
KeyBackspaceJoins(ed) ==
    IF ed.col > 0
    THEN [ed EXCEPT !.col = ed.col - 1, !.buffer[ed.line][ed.col - 1] = NUL]
    ELSE IF ed.line > 0
    THEN [ed EXCEPT !.line = ed.line - 1, !.col = StrLen(ed.buffer, ed.line - 1)]
    ELSE ed

KeyBackspace(ed) ==
    IF ed.col > 0
    THEN [ed EXCEPT !.col = ed.col - 1, !.buffer[ed.line][ed.col - 1] = NUL]
    ELSE ed

\* KeyEnter that leaves the line it ends as it is
KeyEnterNoTruncate(ed) ==
    LET next == ed.line + 1
        line == IF next >= MAX_LINES THEN MAX_LINES - 1 ELSE next
    IN [buffer |-> ed.buffer,
        line |-> line,
        col |-> 0,
        lines |-> IF line >= ed.lines THEN line + 1 ELSE ed.lines]

\* KeyEnter that leaves the line count alone
KeyEnterKeepsCount(ed) ==
    LET next == ed.line + 1
        line == IF next >= MAX_LINES THEN MAX_LINES - 1 ELSE next
    IN [buffer |-> [ed.buffer EXCEPT ![ed.line][ed.col] = NUL],
        line |-> line,
        col |-> 0,
        lines |-> ed.lines]

KeyEnter(ed) ==
    LET next == ed.line + 1
        line == IF next >= MAX_LINES THEN MAX_LINES - 1 ELSE next
    IN [buffer |-> [ed.buffer EXCEPT ![ed.line][ed.col] = NUL],
        line |-> line,
        col |-> 0,
        lines |-> IF line >= ed.lines THEN line + 1 ELSE ed.lines]

\* KeyChar that writes the character and no terminator behind it
KeyCharKeepsTail(ed, ch) ==
    IF ed.col < MAX_LINE_LENGTH - 1
    THEN [buffer |-> [ed.buffer EXCEPT ![ed.line][ed.col] = ch],
          line |-> ed.line,
          col |-> ed.col + 1,
          lines |-> IF ed.line >= ed.lines THEN ed.line + 1 ELSE ed.lines]
    ELSE ed

KeyChar(ed, ch) ==
    IF ed.col < MAX_LINE_LENGTH - 1
    THEN [buffer |-> [ed.buffer EXCEPT ![ed.line][ed.col] = ch,
                                       ![ed.line][ed.col + 1] = NUL],
          line |-> ed.line,
          col |-> ed.col + 1,
          lines |-> IF ed.line >= ed.lines THEN ed.line + 1 ELSE ed.lines]
    ELSE ed

IsPrintable(u) == u >= 32 /\ u < 127

\* LineKey in which the Up arrow moves the text cursor one line up
LineKeyUpMoves(ed, key) ==
    IF key.ScanCode = SCAN_UP
    THEN [ed EXCEPT !.line = IF ed.line > 0 THEN ed.line - 1 ELSE ed.line, !.col = 0]
    ELSE IF key.UnicodeChar = CHAR_BACKSPACE THEN KeyBackspace(ed)
    ELSE IF key.UnicodeChar = CHAR_CARRIAGE_RETURN THEN KeyEnter(ed)
    ELSE IF IsPrintable(key.UnicodeChar) THEN KeyChar(ed, key.UnicodeChar)
    ELSE ed

\* the else-if chain below the Escape / F2 / F3 tests
LineKey(ed, key) ==
    IF key.UnicodeChar = CHAR_BACKSPACE THEN KeyBackspace(ed)
    ELSE IF key.UnicodeChar = CHAR_CARRIAGE_RETURN THEN KeyEnter(ed)
    ELSE IF IsPrintable(key.UnicodeChar) THEN KeyChar(ed, key.UnicodeChar)
    ELSE ed

\* ------------------------------------------------------------------- state
VARIABLES
    state,                \* the dispatcher's position: which loop blocks in read_key
    cursor,               \* Cursor cursor: the menu's free cursor
    key,                  \* EFI_INPUT_KEY key: the last key read
    notepad_buffer, notepad_lines, notepad_cursor_line, notepad_cursor_col,
    editor_buffer, editor_lines, editor_cursor_line, editor_cursor_col,
    input,                \* app_calc: CHAR16 input[128], as the string it holds
    result_str,           \* app_calc: the result line on the screen
    files,                \* the volume: the characters of \notepad.txt and \sample.txt
    user,                 \* the keys the console delivers in this run
    hist,                 \* the keys typed since the line buffer was last empty
    ev,                   \* one call of evaluate_expression, statement by statement
    io,                   \* one save_to_file followed by one load_from_file
    screen,               \* the text rows of the running window on the console
    status_line,          \* the message at the window's status position
    fw,                   \* what the firmware answered to the persistence call of this step
    pending,              \* ConIn: the keys pressed and not yet read
    frame                 \* app_donut: the frames rendered

vars == <<state, cursor, key,
          notepad_buffer, notepad_lines, notepad_cursor_line, notepad_cursor_col,
          editor_buffer, editor_lines, editor_cursor_line, editor_cursor_col,
          input, result_str, files, user, hist, ev, io,
          screen, status_line, fw, pending, frame>>

shellVars == <<state, cursor, key,
               notepad_buffer, notepad_lines, notepad_cursor_line, notepad_cursor_col,
               editor_buffer, editor_lines, editor_cursor_line, editor_cursor_col,
               input, result_str, files, user, hist,
               screen, status_line, fw, pending, frame>>

notepadVars == <<notepad_buffer, notepad_lines, notepad_cursor_line, notepad_cursor_col>>
editorVars == <<editor_buffer, editor_lines, editor_cursor_line, editor_cursor_col>>
calcVars == <<input, result_str>>
surfaceVars == <<screen, status_line>>
donutVars == <<pending, frame>>

\* the notepad's and the editor's (buffer, line count, cursor) as one record
Notepad ==
    [buffer |-> notepad_buffer, lines |-> notepad_lines,
     line |-> notepad_cursor_line, col |-> notepad_cursor_col]
Editor ==
    [buffer |-> editor_buffer, lines |-> editor_lines,
     line |-> editor_cursor_line, col |-> editor_cursor_col]

\* ------------------------------------------------------------------ inputs
\* The keys a run can deliver, per loop.  A run draws one user in Init; the
\* users differ only in which keys they press.
Arrows == {Scan(SCAN_UP), Scan(SCAN_DOWN), Scan(SCAN_LEFT), Scan(SCAN_RIGHT)}

K_ESC == Scan(SCAN_ESC)
K_F2 == Scan(SCAN_F2)
K_F3 == Scan(SCAN_F3)
K_BS == Char(CHAR_BACKSPACE)
K_CR == Char(CHAR_CARRIAGE_RETURN)

NoKeys == [menu |-> {}, notepad |-> {}, editor |-> {}, calc |-> {}, donut |-> {}]

\* roams the menu: arrows, a key no branch tests, quit
UserMenu ==
    [NoKeys EXCEPT !.menu = Arrows \cup {Char(97), K_F2, Char(113), Char(81)}]

\* launches every sub-application in turn and leaves it again
UserLaunch ==
    [menu |-> {Char(110), Char(78), Char(99), Char(67), Char(101), Char(69),
               Char(100), Char(68), Char(113)},
     notepad |-> {K_ESC, Char(113)},
     editor |-> {K_ESC, Char(113)},
     calc |-> {K_ESC, Char(50)},
     donut |-> {K_ESC, Char(97)}]

\* types lines of text into the notepad
UserTypist ==
    [NoKeys EXCEPT !.menu = {Char(110)},
                   !.notepad = {Char(97), Char(113), K_CR}]

\* edits in the notepad and comes back to it
UserNotepad ==
    [NoKeys EXCEPT !.menu = {Char(110)},
                   !.notepad = {K_ESC, K_F3, Scan(SCAN_UP), K_BS, K_CR, Char(113)}]

\* saves from the notepad
UserNotepadSave ==
    [NoKeys EXCEPT !.menu = {Char(110)},
                   !.notepad = {K_F2, K_CR, Char(113)}]

\* edits in the editor
UserEditor ==
    [NoKeys EXCEPT !.menu = {Char(101)},
                   !.editor = {K_ESC, K_BS, K_CR, Char(113)}]

\* saves and reloads in the editor
UserEditorSave ==
    [NoKeys EXCEPT !.menu = {Char(101)},
                   !.editor = {K_F2, K_F3, Char(113)}]

\* saves, leaves the editor and opens it again
UserEditorReopen ==
    [NoKeys EXCEPT !.menu = {Char(101)},
                   !.editor = {K_ESC, K_F2, K_CR}]

\* reloads over edits
UserEditorReload ==
    [NoKeys EXCEPT !.menu = {Char(101)},
                   !.editor = {K_ESC, K_F3, K_CR, Char(113)}]

\* computes
UserCalc ==
    [NoKeys EXCEPT !.menu = {Char(99)},
                   !.calc = {K_ESC, K_CR, K_BS, Char(50), Char(42), Char(97)}]

\* moves the free cursor between visits to the sub-applications
UserRoamLaunch ==
    [menu |-> {Scan(SCAN_LEFT), Scan(SCAN_UP), Char(110), Char(99), Char(101), Char(100)},
     notepad |-> {K_ESC, Scan(SCAN_DOWN)},
     editor |-> {K_ESC, Scan(SCAN_RIGHT)},
     calc |-> {K_ESC, Scan(SCAN_DOWN)},
     donut |-> {K_ESC, Scan(SCAN_RIGHT)}]

Users == {UserMenu, UserLaunch, UserTypist, UserNotepad, UserNotepadSave,
          UserEditor, UserEditorSave, UserEditorReopen, UserEditorReload, UserCalc,
          UserRoamLaunch}

\* the sample.txt a volume can hold at boot
InitialSamples == { <<>>, <<97, 97, 97, CHAR_CARRIAGE_RETURN, CHAR_LINEFEED, 113>> }

\* what the editor's stack array can hold on entry: it is not initialised, so
\* it is either all NUL or holds no NUL at all
StackGarbage == {ZeroBuffer, [l \in Lines |-> [c \in Cols |-> JUNK]]}

\* the two lines of default content, cut to the scaled line length
DEFAULT_LINE0 == <<84>>
DEFAULT_LINE1 == <<69>>

\* History of the keys read by the notepad or editor loop, kept from the
\* moment its buffer is empty (one empty line, cursor at (0,0)) for as long
\* as the keys are printable characters, at most MAX_LINE_LENGTH - 1 to a
\* line, and Enter: done holds the runs ended by Enter, cur the run typed
\* since.  Any other key ends the history, and so does any key after
\* MAX_LINES presses of Enter.
HistOff == [on |-> FALSE, done |-> <<>>, cur |-> <<>>]
HistStart == [on |-> TRUE, done |-> <<>>, cur |-> <<>>]

IsEmptyBuffer(ed) ==
    ed.lines = 1 /\ ed.line = 0 /\ ed.col = 0 /\ ed.buffer[0][0] = NUL

HistNext(h, ed, k) ==
    IF IsEmptyBuffer(ed) THEN HistStart
    ELSE IF ~h.on \/ k.ScanCode # SCAN_NULL THEN HistOff
    ELSE IF Len(h.done) >= MAX_LINES THEN HistOff
    ELSE IF k.UnicodeChar = CHAR_CARRIAGE_RETURN
    THEN [h EXCEPT !.done = Append(h.done, h.cur), !.cur = <<>>]
    ELSE IF IsPrintable(k.UnicodeChar) /\ Len(h.cur) < MAX_LINE_LENGTH - 1
    THEN [h EXCEPT !.cur = Append(h.cur, k.UnicodeChar)]
    ELSE HistOff

\* the locals of a function that is not running
NoEval == [expr |-> <<>>, i |-> 1, result |-> 0, current_num |-> 0, op |-> 43, pc |-> "idle"]
NoIo == [pc |-> "idle", text |-> <<>>, old |-> <<>>, file |-> <<>>, writes |-> "none",
         saved |-> "none", loaded |-> "none", buffer |-> ZeroBuffer, num_lines |-> 0]

\* efi_main up to the first read_key of the menu loop
Init ==
    /\ state = "MainMenu"
    /\ cursor = [x |-> SCREEN_WIDTH \div 2, y |-> SCREEN_HEIGHT \div 2]
    /\ key = NoKey
    /\ notepad_buffer = ZeroBuffer
    /\ notepad_lines = 1
    /\ notepad_cursor_line = 0
    /\ notepad_cursor_col = 0
    /\ editor_buffer = ZeroBuffer
    /\ editor_lines = 0
    /\ editor_cursor_line = 0
    /\ editor_cursor_col = 0
    /\ input = <<>>
    /\ result_str = <<>>
    /\ files \in [notepad : {<<>>}, sample : InitialSamples]
    /\ user \in Users
    /\ hist = HistOff
    /\ ev = NoEval
    /\ io = NoIo
    /\ screen = ClearRows(0)
    /\ status_line = "blank"
    /\ fw = "none"
    /\ pending = <<>>
    /\ frame = 0

\* app_editor up to its first read_key: the load and the default content
EditorEntry(garbage, outcome) ==
    LET r == load_from_file(files.sample, garbage, outcome) IN
    /\ editor_buffer' = IF r.status = "EFI_ERROR"
                        THEN StrCpy(StrCpy(r.buffer, 0, DEFAULT_LINE0), 1, DEFAULT_LINE1)
                        ELSE r.buffer
    /\ editor_lines' = IF r.status = "EFI_ERROR" THEN 2 ELSE r.num_lines
    /\ editor_cursor_line' = 0
    /\ editor_cursor_col' = 0

\* NotepadEntry that starts every session on a cleared buffer
NotepadEntryClears ==
    /\ notepad_cursor_line' = 0
    /\ notepad_cursor_col' = 0
    /\ notepad_buffer' = ZeroBuffer
    /\ notepad_lines' = 1

\* app_notepad up to its first read_key: the cursor goes back to (0,0)
NotepadEntry ==
    /\ notepad_cursor_line' = 0
    /\ notepad_cursor_col' = 0
    /\ UNCHANGED <<notepad_buffer, notepad_lines>>

\* MenuTarget that quits on lower-case q only
MenuTargetLowerQ(u) ==
    IF u = 110 \/ u = 78 THEN "InNotepad"
    ELSE IF u = 99 \/ u = 67 THEN "InCalculator"
    ELSE IF u = 101 \/ u = 69 THEN "InEditor"
    ELSE IF u = 100 \/ u = 68 THEN "InAnimation"
    ELSE IF u = 113 THEN "Exiting"
    ELSE "MainMenu"

\* "handle menu selections": where a character key takes the dispatcher
MenuTarget(u) ==
    IF u = 110 \/ u = 78 THEN "InNotepad"
    ELSE IF u = 99 \/ u = 67 THEN "InCalculator"
    ELSE IF u = 101 \/ u = 69 THEN "InEditor"
    ELSE IF u = 100 \/ u = 68 THEN "InAnimation"
    ELSE IF u = 113 \/ u = 81 THEN "Exiting"
    ELSE "MainMenu"

\* ArrowMove that lets the cursor reach the first and the last screen row
ArrowMoveFullScreen(c, k) ==
    IF k.ScanCode = SCAN_UP /\ c.y > 0 THEN [c EXCEPT !.y = c.y - 1]
    ELSE IF k.ScanCode = SCAN_DOWN /\ c.y < SCREEN_HEIGHT - 1 THEN [c EXCEPT !.y = c.y + 1]
    ELSE IF k.ScanCode = SCAN_LEFT /\ c.x > 0 THEN [c EXCEPT !.x = c.x - 1]
    ELSE IF k.ScanCode = SCAN_RIGHT /\ c.x < SCREEN_WIDTH - 1 THEN [c EXCEPT !.x = c.x + 1]
    ELSE c

\* "handle arrow keys for cursor movement": the cursor after key k; it is c
\* itself when none of the four branches is taken
ArrowMove(c, k) ==
    IF k.ScanCode = SCAN_UP /\ c.y > 1 THEN [c EXCEPT !.y = c.y - 1]
    ELSE IF k.ScanCode = SCAN_DOWN /\ c.y < SCREEN_HEIGHT - 2 THEN [c EXCEPT !.y = c.y + 1]
    ELSE IF k.ScanCode = SCAN_LEFT /\ c.x > 0 THEN [c EXCEPT !.x = c.x - 1]
    ELSE IF k.ScanCode = SCAN_RIGHT /\ c.x < SCREEN_WIDTH - 1 THEN [c EXCEPT !.x = c.x + 1]
    ELSE c

\* one iteration of the menu loop of efi_main, and the start of the
\* sub-application it launches
MenuKey ==
    /\ state = "MainMenu"
    /\ \E k \in user.menu :
        /\ key' = k
        /\ IF ArrowMove(cursor, k) # cursor
           THEN /\ cursor' = ArrowMove(cursor, k)
                /\ state' = state
                /\ fw' = "none"
                /\ UNCHANGED <<notepadVars, editorVars, calcVars, hist, surfaceVars, frame>>
           ELSE /\ state' = MenuTarget(k.UnicodeChar)
                /\ cursor' = cursor
                /\ IF state' = "InNotepad"
                   THEN /\ NotepadEntry
                        /\ hist' = IF IsEmptyBuffer(Notepad') THEN HistStart ELSE HistOff
                        /\ screen' = Redraw(ClearRows(NOTEPAD_ROWS), notepad_buffer,
                                            notepad_lines, NOTEPAD_ROWS, NOTEPAD_FIELD)
                        /\ status_line' = "hint"
                        /\ fw' = "none"
                        /\ UNCHANGED <<editorVars, calcVars, frame>>
                   ELSE IF state' = "InCalculator"
                   THEN /\ input' = <<>>
                        /\ result_str' = <<>>
                        /\ screen' = ClearRows(0)
                        /\ status_line' = "hint"
                        /\ fw' = "none"
                        /\ UNCHANGED <<notepadVars, editorVars, hist, frame>>
                   ELSE IF state' = "InEditor"
                   THEN /\ \E g \in StackGarbage, o \in LoadOutcomes :
                             EditorEntry(g, o) /\ fw' = o
                        /\ hist' = IF IsEmptyBuffer(Editor') THEN HistStart ELSE HistOff
                        /\ screen' = Redraw(ClearRows(EDITOR_ROWS), editor_buffer',
                                            editor_lines', EDITOR_ROWS, EDITOR_FIELD)
                        /\ status_line' = "hint"
                        /\ UNCHANGED <<notepadVars, calcVars, frame>>
                   ELSE IF state' = "InAnimation"
                   THEN /\ screen' = ClearRows(0)
                        /\ status_line' = "hint"
                        /\ fw' = "none"
                        /\ frame' = 0
                        /\ UNCHANGED <<notepadVars, editorVars, calcVars, hist>>
                   ELSE /\ fw' = "none"
                        /\ UNCHANGED <<notepadVars, editorVars, calcVars, hist,
                                       surfaceVars, frame>>
    /\ UNCHANGED <<files, user, ev, io, pending>>

\* the message written at the status position after save_to_file
SaveMessage(status) == IF status = "EFI_ERROR" THEN "save failed" ELSE "saved"

\* one iteration of the loop of app_notepad
NotepadKey ==
    /\ state = "InNotepad"
    /\ \E k \in user.notepad :
        /\ key' = k
        /\ IF k.ScanCode = SCAN_ESC
           THEN /\ state' = "MainMenu"
                /\ hist' = HistOff
                /\ screen' = ClearRows(0)
                /\ status_line' = "blank"
                /\ fw' = "none"
                /\ UNCHANGED <<notepadVars, files>>
           ELSE IF k.ScanCode = SCAN_F2
           THEN \E o \in SaveOutcomes :
                  LET r == save_to_file(files.notepad, notepad_buffer, notepad_lines, o) IN
                  /\ files' = [files EXCEPT !.notepad = r.file]
                  /\ status_line' = SaveMessage(r.status)
                  /\ fw' = o
                  /\ hist' = HistNext(hist, Notepad, k)
                  /\ screen' = Redraw(screen, notepad_buffer, notepad_lines,
                                      NOTEPAD_ROWS, NOTEPAD_FIELD)
                  /\ UNCHANGED <<state, notepadVars>>
           ELSE LET ed == LineKey(Notepad, k) IN
                /\ notepad_buffer' = ed.buffer
                /\ notepad_lines' = ed.lines
                /\ notepad_cursor_line' = ed.line
                /\ notepad_cursor_col' = ed.col
                /\ hist' = HistNext(hist, ed, k)
                /\ screen' = Redraw(screen, ed.buffer, ed.lines, NOTEPAD_ROWS, NOTEPAD_FIELD)
                /\ fw' = "none"
                /\ UNCHANGED <<state, files, status_line>>
    /\ UNCHANGED <<cursor, editorVars, calcVars, user, ev, io, donutVars>>

\* one iteration of the loop of app_editor; the array is gone on return
EditorKey ==
    /\ state = "InEditor"
    /\ \E k \in user.editor :
        /\ key' = k
        /\ IF k.ScanCode = SCAN_ESC
           THEN /\ state' = "MainMenu"
                /\ editor_buffer' = ZeroBuffer
                /\ editor_lines' = 0
                /\ editor_cursor_line' = 0
                /\ editor_cursor_col' = 0
                /\ hist' = HistOff
                /\ screen' = ClearRows(0)
                /\ status_line' = "blank"
                /\ fw' = "none"
                /\ UNCHANGED files
           ELSE IF k.ScanCode = SCAN_F2
           THEN \E o \in SaveOutcomes :
                  LET r == save_to_file(files.sample, editor_buffer, editor_lines, o) IN
                  /\ files' = [files EXCEPT !.sample = r.file]
                  /\ status_line' = SaveMessage(r.status)
                  /\ fw' = o
                  /\ hist' = HistNext(hist, Editor, k)
                  /\ screen' = Redraw(screen, editor_buffer, editor_lines,
                                      EDITOR_ROWS, EDITOR_FIELD)
                  /\ UNCHANGED <<state, editorVars>>
           ELSE IF k.ScanCode = SCAN_F3
           THEN \E o \in LoadOutcomes :
                  LET r == load_from_file(files.sample, editor_buffer, o) IN
                  /\ editor_buffer' = r.buffer
                  /\ editor_lines' = r.num_lines
                  /\ editor_cursor_line' = 0
                  /\ editor_cursor_col' = 0
                  /\ hist' = HistNext(hist, Editor', k)
                  /\ screen' = Redraw(screen, r.buffer, r.num_lines, EDITOR_ROWS, EDITOR_FIELD)
                  /\ fw' = o
                  /\ UNCHANGED <<state, files, status_line>>
           ELSE LET ed == LineKey(Editor, k) IN
                /\ editor_buffer' = ed.buffer
                /\ editor_lines' = ed.lines
                /\ editor_cursor_line' = ed.line
                /\ editor_cursor_col' = ed.col
                /\ hist' = HistNext(hist, ed, k)
                /\ screen' = Redraw(screen, ed.buffer, ed.lines, EDITOR_ROWS, EDITOR_FIELD)
                /\ fw' = "none"
                /\ UNCHANGED <<state, files, status_line>>
    /\ UNCHANGED <<cursor, notepadVars, calcVars, user, ev, io, donutVars>>

\* CalcAppend that accepts one character more than the array holds
CalcAppendOffByOne(inp, u) ==
    IF Len(inp) <= INPUT_CAP THEN Append(inp, u) ELSE inp

\* if (input_pos < 127) { input[input_pos++] = key.UnicodeChar; input[input_pos] = 0; }
CalcAppend(inp, u) ==
    IF Len(inp) < INPUT_CAP THEN Append(inp, u) ELSE inp

\* if (input_pos > 0) { input_pos--; input[input_pos] = 0; }
CalcBackspace(inp) ==
    IF Len(inp) > 0 THEN SubSeq(inp, 1, Len(inp) - 1) ELSE inp

\* one iteration of the loop of app_calc
CalcKey ==
    /\ state = "InCalculator"
    /\ \E k \in user.calc :
        /\ key' = k
        /\ IF k.ScanCode = SCAN_ESC
           THEN /\ state' = "MainMenu" /\ input' = <<>> /\ result_str' = <<>>
                /\ status_line' = "blank"
           ELSE IF k.UnicodeChar = CHAR_CARRIAGE_RETURN
           THEN /\ result_str' = <<evaluate_expression(input)>>
                /\ input' = <<>>
                /\ UNCHANGED <<state, status_line>>
           ELSE IF k.UnicodeChar = CHAR_BACKSPACE
           THEN /\ input' = CalcBackspace(input)
                /\ UNCHANGED <<state, result_str, status_line>>
           ELSE IF IsDigit(k.UnicodeChar) \/ IsOperator(k.UnicodeChar)
           THEN /\ input' = CalcAppend(input, k.UnicodeChar)
                /\ UNCHANGED <<state, result_str, status_line>>
           ELSE UNCHANGED <<state, input, result_str, status_line>>
    /\ fw' = "none"
    /\ UNCHANGED <<cursor, notepadVars, editorVars, files, user, hist, ev, io,
                   screen, donutVars>>

\* DonutEnds that leaves the loop on whatever key was read
DonutEndsOnAnyKey(k) == TRUE

\* if (key.ScanCode == SCAN_ESC) break;
DonutEnds(k) == k.ScanCode = SCAN_ESC

\* one iteration of the loop of app_donut in which CheckEvent finds a key
\* (an iteration that finds none changes nothing but the picture)
DonutKey ==
    /\ state = "InAnimation"
    /\ \E k \in user.donut :
        /\ key' = k
        /\ state' = IF DonutEnds(k) THEN "MainMenu" ELSE state
        /\ status_line' = IF DonutEnds(k) THEN "blank" ELSE status_line
    /\ fw' = "none"
    /\ UNCHANGED <<cursor, notepadVars, editorVars, calcVars, files, user, hist, ev, io,
                   screen, donutVars>>

Next == MenuKey \/ NotepadKey \/ EditorKey \/ CalcKey \/ DonutKey

Spec == Init /\ [][Next]_vars

\* ------------------------------------------- app_donut, poll by poll
\* The shell with the loop of app_donut taken apart: the console queues the
\* keys pressed while the animation runs, and each iteration of the loop
\* polls the queue once.  The loops that block in read_key stay as above.
DonutUsers == {UserLaunch, UserRoamLaunch}

InitDonut == Init /\ user \in DonutUsers

HoldsEscape(queue) == \E i \in 1 .. Len(queue) : queue[i].ScanCode = SCAN_ESC

\* a key is pressed while the animation runs; whoever has pressed Escape
\* waits for the menu before pressing another key
DonutPress ==
    /\ state = "InAnimation"
    /\ Len(pending) < PENDING_CAP
    /\ ~HoldsEscape(pending)
    /\ \E k \in user.donut : pending' = Append(pending, k)
    /\ UNCHANGED <<state, cursor, key, notepadVars, editorVars, calcVars, files, user,
                   hist, ev, io, surfaceVars, fw, frame>>

\* one iteration of while (TRUE): CheckEvent, ReadKeyStroke when a key is
\* pending, break on Escape, otherwise render a frame and Stall
DonutFrame ==
    /\ state = "InAnimation"
    /\ IF pending # <<>>
       THEN /\ key' = Head(pending)
            /\ pending' = Tail(pending)
            /\ IF DonutEnds(Head(pending))
               THEN state' = "MainMenu" /\ status_line' = "blank" /\ frame' = frame
               ELSE /\ frame' = Min(frame + 1, MaxFrames)
                    /\ UNCHANGED <<state, status_line>>
       ELSE /\ frame' = Min(frame + 1, MaxFrames)
            /\ UNCHANGED <<state, key, pending, status_line>>
    /\ fw' = "none"
    /\ UNCHANGED <<cursor, notepadVars, editorVars, calcVars, files, user, hist, ev, io,
                   screen>>

NextDonut == MenuKey \/ NotepadKey \/ EditorKey \/ CalcKey \/ DonutPress \/ DonutFrame

\* the loop neither blocks nor waits on anything but Stall: an iteration
\* that can run does run
SpecDonut == InitDonut /\ [][NextDonut]_vars /\ WF_vars(DonutFrame)

\* --------------------------------------- evaluate_expression, step by step
\* all strings over S of length at most n
RECURSIVE StringsUpTo(_, _)
StringsUpTo(S, n) ==
    IF n = 0 THEN {<<>>}
    ELSE LET shorter == StringsUpTo(S, n - 1)
         IN shorter \cup {Append(w, ch) : w \in shorter, ch \in S}

\* '0' '2' '3' '+' '-' '*' '/'
EvalChars == {48, 50, 51, 43, 45, 42, 47}
Expr_5plus3times2 == <<53, 43, 51, 42, 50>>
Expr_8div0plus1 == <<56, 47, 48, 43, 49>>
Exprs == StringsUpTo(EvalChars, MaxExprLen) \cup {Expr_5plus3times2, Expr_8div0plus1}

\* the shell as efi_main leaves it before the menu loop, on a volume with
\* an empty sample.txt and with no key delivered
ShellAtBoot ==
    /\ state = "MainMenu"
    /\ cursor = [x |-> SCREEN_WIDTH \div 2, y |-> SCREEN_HEIGHT \div 2]
    /\ key = NoKey
    /\ notepad_buffer = ZeroBuffer
    /\ notepad_lines = 1
    /\ notepad_cursor_line = 0
    /\ notepad_cursor_col = 0
    /\ editor_buffer = ZeroBuffer
    /\ editor_lines = 0
    /\ editor_cursor_line = 0
    /\ editor_cursor_col = 0
    /\ input = <<>>
    /\ result_str = <<>>
    /\ files = [notepad |-> <<>>, sample |-> <<>>]
    /\ user = NoKeys
    /\ hist = HistOff
    /\ screen = ClearRows(0)
    /\ status_line = "blank"
    /\ fw = "none"
    /\ pending = <<>>
    /\ frame = 0

InitEval ==
    /\ ShellAtBoot
    /\ ev \in {EvalEntry(expr) : expr \in Exprs}
    /\ io = NoIo

\* while (expr[i] != 0) { ... i++; }
EvalLoop ==
    /\ ev.pc = "loop"
    /\ ev.i <= Len(ev.expr)
    /\ ev' = EvalStep(ev)
    /\ UNCHANGED <<shellVars, io>>

\* the loop ends at the terminator: the final operation, then return
EvalReturn ==
    /\ ev.pc = "loop"
    /\ ev.i > Len(ev.expr)
    /\ ev' = EvalFinal(ev)
    /\ UNCHANGED <<shellVars, io>>

NextEval == EvalLoop \/ EvalReturn

SpecEval == InitEval /\ [][NextEval]_vars

\* ------------------------------------- save_to_file, then load_from_file
\* the buffer that holds the lines of text: text[i] in row i - 1, NUL after it
BufferOf(text) ==
    [l \in Lines |-> [c \in Cols |->
        IF l < Len(text) /\ c < Len(text[l + 1]) THEN text[l + 1][c + 1] ELSE NUL]]

\* the texts a buffer can hold: up to MAX_LINES lines of up to
\* MAX_LINE_LENGTH - 1 characters
IoChars == {97, 113}
IoTexts == StringsUpTo(StringsUpTo(IoChars, MAX_LINE_LENGTH - 1), MAX_LINES)

\* what the file can hold before the save: nothing, or an earlier save
IoOldFiles == { <<>>, <<113, 113, CHAR_CARRIAGE_RETURN, CHAR_LINEFEED,
                       113, CHAR_CARRIAGE_RETURN, CHAR_LINEFEED>> }

InitIo ==
    /\ ShellAtBoot
    /\ ev = NoEval
    /\ \E text \in IoTexts, old \in IoOldFiles :
         io = [pc |-> "start", text |-> text, old |-> old, file |-> old,
               writes |-> "none", saved |-> "none", loaded |-> "none",
               buffer |-> ZeroBuffer, num_lines |-> 0]

\* save_to_file(path, buffer, num_lines) on the buffer that holds io.text
IoSave ==
    /\ io.pc = "start"
    /\ \E o \in SaveOutcomes :
         LET r == save_to_file(io.file, BufferOf(io.text), Len(io.text), o)
         IN io' = [io EXCEPT !.pc = "saved", !.writes = o, !.saved = r.status, !.file = r.file]
    /\ UNCHANGED <<shellVars, ev>>

\* load_from_file(path, buffer, &num_lines) into a cleared buffer
IoLoad ==
    /\ io.pc = "saved"
    /\ \E o \in LoadOutcomes :
         LET r == load_from_file(io.file, ZeroBuffer, o)
         IN io' = [io EXCEPT !.pc = "loaded", !.loaded = r.status,
                             !.buffer = r.buffer, !.num_lines = r.num_lines]
    /\ UNCHANGED <<shellVars, ev>>

NextIo == IoSave \/ IoLoad

SpecIo == InitIo /\ [][NextIo]_vars

\* ================================================================== claims
InLineBuffer == state \in {"InNotepad", "InEditor"}

\* the line buffer the running sub-application edits
Active == IF state = "InEditor" THEN Editor ELSE Notepad

\* the completed lines hold the runs typed, and the line count is the number
\* of Enter presses + 1
LinesAsTyped ==
    /\ Active.lines = Len(hist.done) + 1
    /\ \A i \in 1 .. Len(hist.done) : Str(Active.buffer, i - 1) = hist.done[i]

\* C1 as stated: after runs of at most MAX_LINE_LENGTH - 1 printable
\* characters, each ended by Enter, typed into an empty buffer, the line count
\* is the number of Enter presses + 1 and every completed line holds its run,
\* for every number of Enter presses.
C1_AnyNumberOfEnters == (InLineBuffer /\ hist.on) => LinesAsTyped

\* C1 as amended: the same, for at most MAX_LINES - 1 presses of Enter.
C1_EntersBelowMaxLines ==
    (InLineBuffer /\ hist.on /\ Len(hist.done) <= MAX_LINES - 1) => LinesAsTyped

\* MAX_LINES - 1 full-length runs have been typed into the notepad
C1_Witness ==
    /\ state = "InNotepad"
    /\ hist.on
    /\ Len(hist.done) = MAX_LINES - 1
    /\ \A i \in 1 .. Len(hist.done) : Len(hist.done[i]) = MAX_LINE_LENGTH - 1
    /\ key = K_CR

\* C2: in every state of a notepad or editor session the cursor line is
\* below the line count and the cursor column is at most the length of the
\* cursor's line.
C2_CursorInBuffer ==
    InLineBuffer =>
        /\ Active.line < Active.lines
        /\ Active.col <= StrLen(Active.buffer, Active.line)

WithinBounds(ed) ==
    /\ ed.lines <= MAX_LINES
    /\ \A l \in Lines : l < ed.lines => StrLen(ed.buffer, l) <= MAX_LINE_LENGTH - 1

\* C3: the notepad buffer, and the editor buffer during a session, hold at
\* most MAX_LINES lines, each line below the line count of length at most
\* MAX_LINE_LENGTH - 1.
C3_TextBufferBound ==
    /\ WithinBounds(Notepad)
    /\ state = "InEditor" => WithinBounds(Editor)

\* C4: an Enter read with the cursor on line MAX_LINES - 1, and a printable
\* character read with the cursor in column MAX_LINE_LENGTH - 1, change
\* neither the buffer nor the line count nor the cursor.
C4_BoundDropsInput ==
    [][ ( /\ InLineBuffer
          /\ \/ key' = K_CR /\ Active.line = MAX_LINES - 1
             \/ /\ key'.ScanCode = SCAN_NULL
                /\ IsPrintable(key'.UnicodeChar)
                /\ Active.col = MAX_LINE_LENGTH - 1 )
        => Active' = Active ]_vars

\* C5: Backspace in column 0 changes nothing; in a column > 0 it moves the
\* cursor one column left and cuts the cursor's line at the new column, and
\* the cursor line, the line count and every other line stay as they are.
C5_Backspace ==
    [][ (InLineBuffer /\ key' = K_BS) =>
          IF Active.col = 0
          THEN Active' = Active /\ state' = state
          ELSE /\ Active'.col = Active.col - 1
               /\ Active'.line = Active.line
               /\ Active'.lines = Active.lines
               /\ Str(Active'.buffer, Active.line)
                    = SubSeq(Str(Active.buffer, Active.line), 1, Active.col - 1)
               /\ \A l \in Lines \ {Active.line} : Active'.buffer[l] = Active.buffer[l]
               /\ state' = state ]_vars

\* a Backspace has cut the second line of the notepad to one character
C5_Witness ==
    /\ state = "InNotepad"
    /\ key = K_BS
    /\ notepad_cursor_line = 1
    /\ notepad_cursor_col = 1
    /\ Str(notepad_buffer, 1) = <<113>>
    /\ Str(notepad_buffer, 0) # <<>>

\* C6: from the step that leaves the notepad to the step that launches it
\* again, whatever the menu and the other sub-applications do in between,
\* the notepad's buffer and line count stay as they were on exit.
C6_NotepadPersists ==
    [][ (state # "InNotepad" \/ state' # "InNotepad")
        => UNCHANGED <<notepad_buffer, notepad_lines>> ]_vars

\* the notepad has just been launched again and shows text of an earlier session
C6_Witness ==
    /\ state = "InNotepad"
    /\ key \in {Char(110), Char(78)}
    /\ Str(notepad_buffer, 0) # <<>>

SubApplications == {"InNotepad", "InCalculator", "InEditor", "InAnimation"}

\* C7: the dispatcher starts in MainMenu; from MainMenu n/N, c/C, e/E, d/D
\* and q/Q lead to InNotepad, InCalculator, InEditor, InAnimation and Exiting
\* and no other key leaves MainMenu; a sub-application is left only for
\* MainMenu; Exiting is entered only from MainMenu and never left.
C7_Dispatcher ==
    /\ state = "MainMenu"
    /\ [](state = "Exiting" => ~ENABLED Next)
    /\ [][ /\ state = "MainMenu" =>
                state' = CASE key'.UnicodeChar \in {110, 78} -> "InNotepad"
                           [] key'.UnicodeChar \in {99, 67} -> "InCalculator"
                           [] key'.UnicodeChar \in {101, 69} -> "InEditor"
                           [] key'.UnicodeChar \in {100, 68} -> "InAnimation"
                           [] key'.UnicodeChar \in {113, 81} -> "Exiting"
                           [] OTHER -> "MainMenu"
           /\ state \in SubApplications => state' \in {state, "MainMenu"}
           /\ state = "Exiting" => state' = "Exiting" ]_vars

\* a q typed in the notepad has been read and the notepad is still running
C7_Witness ==
    /\ state = "InNotepad"
    /\ key = Char(113)
    /\ Str(notepad_buffer, 0) = <<113>>

\* The left fold of C8, computed from the operands and operator symbols of
\* the whole string rather than character by character.
IsOperatorSymbol(ch) == ch = 43 \/ ch = 45 \/ ch = 42 \/ ch = 47

\* the operator symbols of expr, in order
OperatorsOf(expr) == SelectSeq(expr, IsOperatorSymbol)

\* the position of the n-th operator symbol of expr (0 for n = 0, and
\* Len(expr) + 1 when expr holds fewer than n)
RECURSIVE OperatorAt(_, _)
OperatorAt(expr, n) ==
    IF n = 0 THEN 0
    ELSE LET after == OperatorAt(expr, n - 1)
             later == {p \in (after + 1) .. Len(expr) : IsOperatorSymbol(expr[p])}
         IN IF later = {} THEN Len(expr) + 1
            ELSE CHOOSE p \in later : \A r \in later : p <= r

\* the decimal value of a string of digits; 0 for the empty string
RECURSIVE Decimal(_)
Decimal(digits) ==
    IF digits = <<>> THEN 0
    ELSE 10 * Decimal(SubSeq(digits, 1, Len(digits) - 1)) + (digits[Len(digits)] - 48)

\* the n-th operand: the digits between operator symbol n - 1 and symbol n
OperandOf(expr, n) ==
    Decimal(SubSeq(expr, OperatorAt(expr, n - 1) + 1, OperatorAt(expr, n) - 1))

\* the quotient of n by d > 0, rounded toward zero
Quotient(n, d) ==
    CHOOSE q \in -(IF n < 0 THEN -n ELSE n) .. (IF n < 0 THEN -n ELSE n) :
        LET r == n - q * d
        IN (n >= 0 /\ r >= 0 /\ r < d) \/ (n < 0 /\ r <= 0 /\ -r < d)

Pending(op, acc, operand) ==
    CASE op = 43 -> acc + operand
      [] op = 45 -> acc - operand
      [] op = 42 -> acc * operand
      [] op = 47 -> IF operand = 0 THEN acc ELSE Quotient(acc, operand)

\* the running result after the first n operands
RECURSIVE FoldLeft(_, _)
FoldLeft(expr, n) ==
    IF n = 0 THEN 0
    ELSE Pending((<<43>> \o OperatorsOf(expr))[n], FoldLeft(expr, n - 1), OperandOf(expr, n))

\* C8: evaluate_expression returns the left fold of its input: from 0 with
\* '+' pending, each operand is applied with the operator symbol before it,
\* and a division by an operand of 0 is skipped; "5+3*2" gives 16.
C8_LeftToRight ==
    ev.pc = "returned" =>
        /\ ev.result = FoldLeft(ev.expr, Len(OperatorsOf(ev.expr)) + 1)
        /\ ev.expr = Expr_5plus3times2 => ev.result = 16

\* evaluate_expression has returned from "5+3*2"
C8_Witness == ev.pc = "returned" /\ ev.expr = Expr_5plus3times2 /\ ev.result = 16

\* C9 as stated: evaluate_expression("8/0+1") returns 1.
C9_ReturnsOne ==
    (ev.pc = "returned" /\ ev.expr = Expr_8div0plus1) => ev.result = 1

\* C9 as amended: evaluate_expression("8/0+1") returns 9: the division by 0
\* is skipped and leaves the running result 8, to which 1 is added.
C9_ReturnsNine ==
    (ev.pc = "returned" /\ ev.expr = Expr_8div0plus1) => ev.result = 9

\* evaluate_expression has returned from "8/0+1"
C9_Witness == ev.pc = "returned" /\ ev.expr = Expr_8div0plus1 /\ ev.result > 1

IsNonEmpty(line) == line # <<>>

\* C10, in the case most favourable to it (the file is new and every Write
\* of the save succeeds): when save_to_file and then load_from_file both
\* return EFI_SUCCESS, the lines loaded are the non-empty lines saved, in
\* order and in full.
C10_RoundTrip ==
    ( /\ io.pc = "loaded" /\ io.saved = "EFI_SUCCESS" /\ io.loaded = "EFI_SUCCESS"
      /\ io.old = <<>> /\ io.writes = "ok" ) =>
        /\ io.num_lines = Len(SelectSeq(io.text, IsNonEmpty))
        /\ \A i \in 1 .. io.num_lines :
             Str(io.buffer, i - 1) = SelectSeq(io.text, IsNonEmpty)[i]

\* the messages of the code that report a failure
FailureMessages == {"save failed"}

\* C11: a persistence call that fails (an F2 save, the load at the start of
\* the editor, an F3 reload; a service that fails before the data is moved,
\* or a Write that fails) leaves a failure message at the status position
\* and the sub-application running, and the confirmation is written only
\* after a save that wrote the file.
C11_FailuresSurfaced ==
    [][ /\ fw' \in {"error", "nowrite"} =>
              /\ status_line' \in FailureMessages
              /\ state' \in {"InNotepad", "InEditor"}
        /\ (fw' # "none" /\ status_line' = "saved") => fw' = "ok" ]_vars

OnScreen(pos) == pos.x < SCREEN_WIDTH /\ pos.y < SCREEN_HEIGHT

\* the positions set_cursor is given in one iteration of a text window's
\* loop: the origin of every displayed row, then the cursor
LoopPositions(x, y, rows, ed) ==
    {[x |-> x, y |-> y + i] : i \in {j \in 0 .. (rows - 1) : j < ed.lines}}
        \cup {ShowCursor(x, y, ed)}

\* C12: every position handed to set_cursor is on the screen: the free
\* cursor of the menu, and in the notepad and the editor the origin of each
\* displayed row and the text cursor.
C12_ScreenPositions ==
    /\ OnScreen(cursor)
    /\ state = "InNotepad" =>
         \A pos \in LoopPositions(NOTEPAD_X, NOTEPAD_Y, NOTEPAD_ROWS, Notepad) : OnScreen(pos)
    /\ state = "InEditor" =>
         \A pos \in LoopPositions(EDITOR_X, EDITOR_Y, EDITOR_ROWS, Editor) : OnScreen(pos)

\* C13: a printable character read in a column below MAX_LINE_LENGTH - 1 is
\* inserted: the cursor's line becomes what it held before the cursor, the
\* character, and what it held from the cursor on; the column advances by
\* one, the line count grows to take in the cursor's line, and no other line
\* changes.
C13_PrintableInserts ==
    [][ ( /\ InLineBuffer
          /\ key'.ScanCode = SCAN_NULL
          /\ IsPrintable(key'.UnicodeChar)
          /\ Active.col < MAX_LINE_LENGTH - 1 ) =>
          LET old == Str(Active.buffer, Active.line) IN
          /\ Str(Active'.buffer, Active.line)
               = SubSeq(old, 1, Active.col) \o <<key'.UnicodeChar>>
                   \o SubSeq(old, Active.col + 1, Len(old))
          /\ Active'.col = Active.col + 1
          /\ Active'.line = Active.line
          /\ Active'.lines = IF Active.line >= Active.lines
                             THEN Active.line + 1 ELSE Active.lines
          /\ \A l \in Lines \ {Active.line} : Active'.buffer[l] = Active.buffer[l] ]_vars

\* C14: Enter cuts the cursor's line at the cursor column, moves the cursor
\* to column 0 of line min(line + 1, MAX_LINES - 1), sets the line count to
\* that line + 1 exactly when that line is not below the count, and leaves
\* every other line as it is.
C14_Enter ==
    [][ (InLineBuffer /\ key' = K_CR) =>
          LET new == Min(Active.line + 1, MAX_LINES - 1) IN
          /\ Str(Active'.buffer, Active.line)
               = SubSeq(Str(Active.buffer, Active.line), 1, Active.col)
          /\ Active'.line = new
          /\ Active'.col = 0
          /\ Active'.lines = IF new >= Active.lines THEN new + 1 ELSE Active.lines
          /\ \A l \in Lines \ {Active.line} : Active'.buffer[l] = Active.buffer[l]
          /\ state' = state ]_vars

\* an Enter on line 0 of the editor, over loaded text, has added line 1
C14_Witness ==
    /\ state = "InEditor"
    /\ key = K_CR
    /\ editor_cursor_line = 1
    /\ editor_cursor_col = 0
    /\ editor_lines = 2
    /\ fw = "none"

\* The lines of a file as C15 reads them, computed from the whole text: the
\* non-empty runs between line terminators.
IsLineEnd(ch) == ch = CHAR_CARRIAGE_RETURN \/ ch = CHAR_LINEFEED

\* the length of the run of data before its first terminator
RECURSIVE RunLength(_)
RunLength(data) ==
    IF data = <<>> \/ IsLineEnd(Head(data)) THEN 0 ELSE 1 + RunLength(Tail(data))

RECURSIVE SplitLines(_)
SplitLines(data) ==
    IF data = <<>> THEN <<>>
    ELSE LET n == RunLength(data)
             run == SubSeq(data, 1, n)
         IN (IF run = <<>> THEN <<>> ELSE <<run>>) \o SplitLines(SubSeq(data, n + 2, Len(data)))

\* what a load of the file delivers: of the first FILE_CHARS characters, the
\* first MAX_LINES lines, each cut to MAX_LINE_LENGTH - 1 characters
FileLines(file) ==
    LET all == SplitLines(SubSeq(file, 1, Min(Len(file), FILE_CHARS)))
    IN [i \in 1 .. Min(Len(all), MAX_LINES) |->
            SubSeq(all[i], 1, Min(Len(all[i]), MAX_LINE_LENGTH - 1))]

\* C15: after F3 in the editor the line count is the number of lines the
\* load delivered (none when it failed), lines 0 .. count - 1 are those
\* lines, and the cursor is at (0,0).
C15_Reload ==
    [][ (state = "InEditor" /\ key' = K_F3) =>
          LET loaded == IF fw' = "ok" THEN FileLines(files.sample) ELSE <<>> IN
          /\ editor_lines' = Len(loaded)
          /\ \A i \in 1 .. Len(loaded) : Str(editor_buffer', i - 1) = loaded[i]
          /\ editor_cursor_line' = 0
          /\ editor_cursor_col' = 0
          /\ state' = state ]_vars

\* an F3 has loaded the line that an F2 of the same session wrote over the
\* file the volume held at boot
C15_Witness ==
    /\ state = "InEditor"
    /\ key = K_F3
    /\ fw = "ok"
    /\ editor_lines = 1
    /\ Str(editor_buffer, 0) = <<113>>
    /\ Len(files.sample) > 0
    /\ Head(files.sample) = 113

BeyondCountEmpty(ed) == \A l \in Lines : l >= ed.lines => ed.buffer[l][0] = NUL

\* C16: every row at or beyond the line count is empty: in the notepad from
\* boot on, in the editor from the start of the session and after each F3.
C16_BeyondCountEmpty ==
    /\ BeyondCountEmpty(Notepad)
    /\ state = "InEditor" => BeyondCountEmpty(Editor)

\* the cell next to c in the direction of arrow key k
ArrowTarget(c, k) ==
    CASE k.ScanCode = SCAN_UP -> [c EXCEPT !.y = c.y - 1]
      [] k.ScanCode = SCAN_DOWN -> [c EXCEPT !.y = c.y + 1]
      [] k.ScanCode = SCAN_LEFT -> [c EXCEPT !.x = c.x - 1]
      [] k.ScanCode = SCAN_RIGHT -> [c EXCEPT !.x = c.x + 1]

InRegion(c, top, bottom) ==
    c.x >= 0 /\ c.x < SCREEN_WIDTH /\ c.y >= top /\ c.y <= bottom

\* an arrow read by the menu moves the free cursor to the next cell when
\* that cell is in rows top .. bottom of the screen and leaves it otherwise;
\* nothing else changes the free cursor
FreeCursorStep(top, bottom) ==
    IF state = "MainMenu" /\ key' \in Arrows
    THEN cursor' = (IF InRegion(ArrowTarget(cursor, key'), top, bottom)
                    THEN ArrowTarget(cursor, key') ELSE cursor)
    ELSE cursor' = cursor

\* C17 as stated: an arrow moves the free cursor by one cell unless the cell
\* is off the screen (rows 0 .. SCREEN_HEIGHT - 1), the cursor is always on
\* the screen, and no other step changes it.
C17_ClampedToScreen ==
    /\ [] InRegion(cursor, 0, SCREEN_HEIGHT - 1)
    /\ [][ FreeCursorStep(0, SCREEN_HEIGHT - 1) ]_vars

\* C17 as amended: the same with rows 1 .. SCREEN_HEIGHT - 2: the first and
\* the last screen row are never entered.
C17_ClampedToMenuRows ==
    /\ [] InRegion(cursor, 1, SCREEN_HEIGHT - 2)
    /\ [][ FreeCursorStep(1, SCREEN_HEIGHT - 2) ]_vars

\* a sub-application runs while the free cursor stands in the corner it was
\* moved to
C17_Witness ==
    /\ state \in SubApplications
    /\ cursor = [x |-> 0, y |-> 1]

CalcAlphabet == (48 .. 57) \cup {43, 45, 42, 47}

\* C18: the calculator's input is at most INPUT_CAP characters of the
\* alphabet; a character of the alphabet is appended while there is room,
\* any other character changes nothing, Backspace drops the last character,
\* and Enter shows evaluate_expression of the input and empties it.
C18_CalcInput ==
    /\ [] (Len(input) <= INPUT_CAP /\ \A i \in 1 .. Len(input) : input[i] \in CalcAlphabet)
    /\ [][ (state = "InCalculator" /\ key'.ScanCode = SCAN_NULL) =>
             CASE key' = K_CR ->
                    /\ result_str' = <<evaluate_expression(input)>>
                    /\ input' = <<>>
               [] key' = K_BS ->
                    /\ input' = SubSeq(input, 1, Len(input) - 1)
                    /\ result_str' = result_str
               [] key'.UnicodeChar \in CalcAlphabet ->
                    /\ input' = IF Len(input) < INPUT_CAP
                                THEN input \o <<key'.UnicodeChar>> ELSE input
                    /\ result_str' = result_str
               [] OTHER -> input' = input /\ result_str' = result_str ]_vars

\* Enter has evaluated a full input of two digits
C18_Witness ==
    /\ state = "InCalculator"
    /\ key = K_CR
    /\ input = <<>>
    /\ result_str = <<22>>

\* C19: in the notepad, the calculator and the editor a key ends the
\* sub-application, for the menu, exactly when it is Escape; the animation
\* is left only for the menu and only by reading an Escape, a key other than
\* Escape is read from the queue without ending it, and an Escape in the
\* queue leads to the menu.
C19_EscapeExits ==
    /\ [][ (state \in {"InNotepad", "InCalculator", "InEditor"}) =>
             state' = (IF key'.ScanCode = SCAN_ESC THEN "MainMenu" ELSE state) ]_vars
    /\ [][ state = "InAnimation" =>
             /\ state' \in {"InAnimation", "MainMenu"}
             /\ state' = "MainMenu" =>
                  (pending # <<>> /\ Head(pending) = K_ESC /\ key' = K_ESC)
             /\ (pending # <<>> /\ pending' = Tail(pending) /\ Head(pending) # K_ESC) =>
                  state' = "InAnimation" ]_vars
    /\ (state = "InAnimation" /\ HoldsEscape(pending)) ~> (state = "MainMenu")

\* the animation has read and dropped another key and goes on, with an
\* Escape waiting in the queue
C19_Witness ==
    /\ state = "InAnimation"
    /\ key = Scan(SCAN_RIGHT)
    /\ frame >= 1
    /\ pending = <<K_ESC>>

\* the row shows s and blanks after it
Shows(row, s) ==
    \A c \in ScreenCols : row[c] = IF c < Len(s) THEN s[c + 1] ELSE BLANK

\* C20: while the notepad or the editor waits for a key, each displayed row
\* of a line below the line count shows that line and nothing else.
C20_NoStaleRemnants ==
    /\ state = "InNotepad" =>
         \A i \in 0 .. (NOTEPAD_ROWS - 1) :
            i < notepad_lines => Shows(screen[i], Str(notepad_buffer, i))
    /\ state = "InEditor" =>
         \A i \in 0 .. (EDITOR_ROWS - 1) :
            i < editor_lines => Shows(screen[i], Str(editor_buffer, i))

\* C21: in the notepad and the editor, right after a printable character
\* read in a column below MAX_LINE_LENGTH - 1, and right after a Backspace
\* read in a column above 0, the cursor's line is as long as the cursor
\* column: it holds what it held before the cursor (less the last character
\* for Backspace, plus the typed character otherwise) and nothing that stood
\* at or behind the cursor.
C21_LineEndsAtCursor ==
    [][ (InLineBuffer /\ key'.ScanCode = SCAN_NULL) =>
          LET old == Str(Active.buffer, Active.line) IN
          /\ (IsPrintable(key'.UnicodeChar) /\ Active.col < MAX_LINE_LENGTH - 1) =>
                /\ Active'.line = Active.line
                /\ Active'.col = Active.col + 1
                /\ StrLen(Active'.buffer, Active'.line) = Active'.col
                /\ Str(Active'.buffer, Active'.line)
                     = SubSeq(old, 1, Active.col) \o <<key'.UnicodeChar>>
          /\ (key' = K_BS /\ Active.col > 0) =>
                /\ Active'.line = Active.line
                /\ Active'.col = Active.col - 1
                /\ StrLen(Active'.buffer, Active'.line) = Active'.col
                /\ Str(Active'.buffer, Active'.line) = SubSeq(old, 1, Active.col - 1) ]_vars

\* a character typed in column 0 of the first default line of the editor
\* has replaced that line
C21_Witness ==
    /\ state = "InEditor"
    /\ key = Char(113)
    /\ editor_cursor_line = 0
    /\ editor_cursor_col = 1
    /\ editor_lines = 2
    /\ Str(editor_buffer, 0) = <<113>>
    /\ Str(editor_buffer, 1) = DEFAULT_LINE1

\* the characters the menu dispatches on
MenuLetters == {110, 78, 99, 67, 101, 69, 100, 68, 113, 81}

\* C22: a key no branch handles changes nothing.  In the notepad an arrow
\* key or F3 leaves the buffer, the line count and the text cursor as they
\* are; in the notepad and the editor F2 leaves them as they are whatever the
\* outcome of the save; in the menu a key that is neither an arrow nor one
\* of n/N, c/C, e/E, d/D, q/Q leaves the dispatcher in MainMenu and the free
\* cursor where it is.
C22_UnhandledKeys ==
    [][ /\ (state = "InNotepad" /\ key' \in Arrows \cup {K_F3, K_F2}) =>
             (state' = state /\ UNCHANGED notepadVars)
        /\ (state = "InEditor" /\ key' = K_F2) =>
             (state' = state /\ UNCHANGED editorVars)
        /\ (state = "MainMenu" /\ key' \notin Arrows
                               /\ key'.UnicodeChar \notin MenuLetters) =>
             (state' = "MainMenu" /\ cursor' = cursor) ]_vars

\* a save that failed, on a notepad buffer of two lines with the cursor on
\* the second
C22_Witness ==
    /\ state = "InNotepad"
    /\ key = K_F2
    /\ status_line = "save failed"
    /\ notepad_lines = 2
    /\ notepad_cursor_line = 1

====
